---- MODULE Spec2Model ----
(***************************************************************************)
(* Model of src/components/Images.tsx: the Images collection component     *)
(* (handleDownloadAll) and one ImageSpot item component (download menu,    *)
(* handleFormatSelect, handleSizeSelect, handleDownload).                  *)
(*                                                                         *)
(* One step of the model is one browser task together with the microtasks  *)
(* it drains: a click handler, an image load event with the promise        *)
(* continuation it resumes, a canvas.toBlob callback, the completion of    *)
(* zip.generateAsync.  React state setters are applied within the step.    *)
(***************************************************************************)
EXTENDS Integers, Sequences, FiniteSets, TLC

\* ------------------------------------------------------------------ bounds
\* handleSizeSelect invocations per behaviour of Spec and SpecExport
MaxJobs == 1
\* handleSizeSelect invocations per behaviour of SpecReentrant
MaxClicks == 2
\* item ids are drawn from 1..MaxId
MaxId == 3
\* items in the collection handed to Images
MaxItems == 2
\* handleDownloadAll invocations per behaviour
MaxArchives == 1

\* ------------------------------------------------------------- catalogue
\* JavaScript null in the width/height of the 'original' preset; like null
\* it is falsy (see Truthy) and prints as "null" (see Str).
Null == 0

downloadSizes ==
  << [id |-> "original",  label |-> "Original Size",           width |-> Null, height |-> Null],
     [id |-> "favicon",   label |-> "Favicon (32x32)",         width |-> 32,   height |-> 32],
     [id |-> "icon",      label |-> "Icon (64x64)",            width |-> 64,   height |-> 64],
     [id |-> "thumbnail", label |-> "Thumbnail (150x150)",     width |-> 150,  height |-> 150],
     [id |-> "medium",    label |-> "Medium (512x512)",        width |-> 512,  height |-> 512],
     [id |-> "large",     label |-> "Large (1024x1024)",       width |-> 1024, height |-> 1024],
     [id |-> "xl",        label |-> "Extra Large (2048x2048)", width |-> 2048, height |-> 2048] >>

Formats == {"png", "svg"}

\* ------------------------------------------------------------- JS helpers
\* truthiness of a number-or-null
Truthy(v) == v # Null /\ v # 0

\* template-literal interpolation ${v} of a number-or-null
Str(v) == IF v = Null THEN "null" ELSE ToString(v)

\* prev.includes(x)
Includes(s, x) == \E i \in 1..Len(s) : s[i] = x

\* prev.filter(f => f !== x)
Filter(s, x) == SelectSeq(s, LAMBDA f : f # x)

Range(s) == {s[i] : i \in 1..Len(s)}

\* ----------------------------------------------------------------- state
VARIABLES
  image,                \* props.image of the ImageSpot: [id, processedFile]
  bitmap,               \* natural size <<w, h>> of the decoded image behind each url
  isEditModalOpen,
  processedImageUrl,    \* "" or the url handed over by the edit modal
  showDownloadOptions,
  selectedFormats,      \* sequence of "png" | "svg", in selection order
  downloadedSizes,      \* sequence of preset ids
  jobs,                 \* handleSizeSelect invocations, in click order
  toBlobQueue,          \* canvas.toBlob callbacks not yet run
  saves,                \* anchor clicks issued by handleDownload
  images,               \* props.images of the Images component
  archives,             \* handleDownloadAll invocations, in click order
  zipSaves              \* anchor clicks issued by handleDownloadAll

vars == << image, bitmap, isEditModalOpen, processedImageUrl, showDownloadOptions,
           selectedFormats, downloadedSizes, jobs, toBlobQueue, saves,
           images, archives, zipSaves >>

spotVars == << image, bitmap, isEditModalOpen, processedImageUrl, showDownloadOptions,
               selectedFormats, downloadedSizes, jobs, toBlobQueue, saves >>

allVars == << images, archives, zipSaves >>

\* ------------------------------------------------------ ImageSpot: render
\* an absent processedFile (undefined), and the contents a processedFile can have
NoFile == "undefined"

Files == {"pngA", "pngB"}

\* const isProcessing = !image.processedFile
isProcessing == image.processedFile = NoFile

\* const processedURL = image.processedFile ? URL.createObjectURL(...) : ""
processedURL == IF image.processedFile # NoFile THEN "blob:processed" ELSE ""

\* the url the edit modal passes to onSave
EditedURL == "blob:edited"

Urls == {"blob:processed", EditedURL}

\* natural sizes of decoded images
NaturalSizes == { <<640, 480>>, <<100, 100>> }

\* the size buttons without their disabled attribute
SizeButtonEnabled_NoDisabled == showDownloadOptions

\* the size buttons are rendered inside {showDownloadOptions && ...}
\* and carry disabled={selectedFormats.length === 0}
SizeButtonEnabled == showDownloadOptions /\ Len(selectedFormats) # 0

\* ------------------------------------------------- handleDownload: pieces
\* a canvas that always takes the image's size
CanvasSize_Natural(size, img) == << img[1], img[2] >>

\* canvas.width / canvas.height after lines 146-152
CanvasSize(size, img) ==
  IF Truthy(size.width) /\ Truthy(size.height)
    THEN << size.width, size.height >>
    ELSE << img[1], img[2] >>

\* a file name that always interpolates width and height
FileName_Dims(id, size, format) ==
  "processed-" \o ToString(id) \o "-" \o Str(size.width) \o "x" \o Str(size.height)
    \o "." \o format

\* fileName of lines 156-159
FileName(id, size, format) ==
  LET baseName == "processed-" \o ToString(id)
  IN  IF size.id = "original"
        THEN baseName \o "-original." \o format
        ELSE baseName \o "-" \o Str(size.width) \o "x" \o Str(size.height) \o "." \o format

\* the <svg> wrapper of lines 162-166: its width and height attributes and the
\* size of the PNG data url it embeds
SvgString(canvas) ==
  [ width |-> Str(canvas[1]), height |-> Str(canvas[2]),
    href  |-> "data:image/png;" \o Str(canvas[1]) \o "x" \o Str(canvas[2]) ]

\* what one handleDownload invocation hands to the anchor: a.download and the blob
Download(j, k, id, size, format, img) ==
  LET canvas == CanvasSize(size, img)
  IN  [ job |-> j, k |-> k, format |-> format,
        download |-> FileName(id, size, format),
        canvas |-> canvas,
        svg |-> IF format = "svg" THEN SvgString(canvas)
                ELSE [width |-> "", height |-> "", href |-> ""] ]

\* handleDownload without its if (!ctx) return
Emit_NoContextCheck(ctx, format) == IF format = "svg" THEN "click" ELSE "toBlob"

\* what handleDownload does once the image is drawn, lines 143-144 and 161-184:
\* "return" without a 2d context, else a synchronous anchor click for svg and
\* a queued canvas.toBlob callback for png
Emit(ctx, format) ==
  IF ~ctx THEN "return"
  ELSE IF format = "svg" THEN "click" ELSE "toBlob"

\* what the canvas.toBlob callback does with its argument, lines 175-183
BlobCallback(blob) == IF ~blob THEN "return" ELSE "click"

\* ----------------------------------------------------- ImageSpot: actions
\* the upstream component attaches processedFile to the item
AttachProcessed(file) ==
  /\ image.processedFile = NoFile
  /\ image' = [image EXCEPT !.processedFile = file]
  /\ UNCHANGED << bitmap, isEditModalOpen, processedImageUrl, showDownloadOptions,
                  selectedFormats, downloadedSizes, jobs, toBlobQueue, saves >>
  /\ UNCHANGED allVars

\* Edit button, rendered under {!isProcessing && ...}
OpenEditModal ==
  /\ ~isProcessing
  /\ ~isEditModalOpen
  /\ isEditModalOpen' = TRUE
  /\ UNCHANGED << image, bitmap, processedImageUrl, showDownloadOptions,
                  selectedFormats, downloadedSizes, jobs, toBlobQueue, saves >>
  /\ UNCHANGED allVars

\* EditModal onClose
CloseEditModal ==
  /\ isEditModalOpen
  /\ isEditModalOpen' = FALSE
  /\ UNCHANGED << image, bitmap, processedImageUrl, showDownloadOptions,
                  selectedFormats, downloadedSizes, jobs, toBlobQueue, saves >>
  /\ UNCHANGED allVars

\* EditModal onSave
handleEditSave(editedImageUrl) ==
  /\ isEditModalOpen
  /\ processedImageUrl' = editedImageUrl
  /\ UNCHANGED << image, bitmap, isEditModalOpen, showDownloadOptions,
                  selectedFormats, downloadedSizes, jobs, toBlobQueue, saves >>
  /\ UNCHANGED allVars

\* Download button, rendered under {!isProcessing && ...}:
\* setShowDownloadOptions(!showDownloadOptions)
ToggleDownloadOptions ==
  /\ ~isProcessing
  /\ showDownloadOptions' = ~showDownloadOptions
  /\ UNCHANGED << image, bitmap, isEditModalOpen, processedImageUrl,
                  selectedFormats, downloadedSizes, jobs, toBlobQueue, saves >>
  /\ UNCHANGED allVars

\* the full-viewport layer behind the menu
BackdropClick ==
  /\ showDownloadOptions
  /\ showDownloadOptions' = FALSE
  /\ selectedFormats' = << >>
  /\ downloadedSizes' = << >>
  /\ UNCHANGED << image, bitmap, isEditModalOpen, processedImageUrl,
                  jobs, toBlobQueue, saves >>
  /\ UNCHANGED allVars

\* PNG / SVG toggle in the menu
handleFormatSelect(format) ==
  /\ showDownloadOptions
  /\ selectedFormats' = IF Includes(selectedFormats, format)
                          THEN Filter(selectedFormats, format)
                          ELSE Append(selectedFormats, format)
  /\ UNCHANGED << image, bitmap, isEditModalOpen, processedImageUrl, showDownloadOptions,
                  downloadedSizes, jobs, toBlobQueue, saves >>
  /\ UNCHANGED allVars

\* the for loop of handleSizeSelect after handleDownload number job.idx has
\* returned: the next handleDownload creates its Image and suspends on its
\* load, or the loop ends and setDownloadedSizes appends size.id
LoopNext(job) ==
  IF job.idx < Len(job.formats)
    THEN [job EXCEPT !.idx = job.idx + 1, !.img = "loading"]
    ELSE [job EXCEPT !.img = "none", !.done = TRUE]

\* click on a size button: handleSizeSelect up to its first suspension.  The
\* closure holds the render's selectedFormats, image.id and image url.
handleSizeSelect(size) ==
  /\ SizeButtonEnabled
  /\ LET job == [ size |-> size, formats |-> selectedFormats, id |-> image.id,
                  src |-> IF processedImageUrl # "" THEN processedImageUrl ELSE processedURL,
                  processing |-> isProcessing,
                  idx |-> 0, img |-> "none", done |-> FALSE, noctx |-> {} ]
         started == LoopNext(job)
     IN  /\ jobs' = Append(jobs, started)
         /\ downloadedSizes' = IF started.done THEN Append(downloadedSizes, size.id)
                               ELSE downloadedSizes
  /\ UNCHANGED << image, bitmap, isEditModalOpen, processedImageUrl, showDownloadOptions,
                  selectedFormats, toBlobQueue, saves >>
  /\ UNCHANGED allVars

\* the load event of the Image of invocation j: handleDownload resumes, draws,
\* saves or queues the toBlob callback, returns; handleSizeSelect goes on
ImgLoad(j, ctx) ==
  /\ j \in 1..Len(jobs)
  /\ jobs[j].img = "loading"
  /\ LET job  == jobs[j]
         k    == job.idx
         d    == Download(j, k, job.id, job.size, job.formats[k], bitmap[job.src])
         e    == Emit(ctx, job.formats[k])
         next == LoopNext([job EXCEPT !.noctx = IF ctx THEN @ ELSE @ \cup {k}])
     IN  /\ saves' = IF e = "click" THEN saves \cup {d} ELSE saves
         /\ toBlobQueue' = IF e = "toBlob" THEN toBlobQueue \cup {d} ELSE toBlobQueue
         /\ jobs' = [jobs EXCEPT ![j] = next]
         /\ downloadedSizes' = IF next.done THEN Append(downloadedSizes, job.size.id)
                               ELSE downloadedSizes
  /\ UNCHANGED << image, bitmap, isEditModalOpen, processedImageUrl, showDownloadOptions,
                  selectedFormats >>
  /\ UNCHANGED allVars

\* the error event of the Image of invocation j: only onload is assigned
\* (line 140), so the awaited promise is never settled
ImgError(j) ==
  /\ j \in 1..Len(jobs)
  /\ jobs[j].img = "loading"
  /\ jobs' = [jobs EXCEPT ![j].img = "error"]
  /\ UNCHANGED << image, bitmap, isEditModalOpen, processedImageUrl, showDownloadOptions,
                  selectedFormats, downloadedSizes, toBlobQueue, saves >>
  /\ UNCHANGED allVars

\* a queued canvas.toBlob callback runs
ToBlobCallback(d, blob) ==
  /\ d \in toBlobQueue
  /\ toBlobQueue' = toBlobQueue \ {d}
  /\ saves' = IF BlobCallback(blob) = "click" THEN saves \cup {d} ELSE saves
  /\ UNCHANGED << image, bitmap, isEditModalOpen, processedImageUrl, showDownloadOptions,
                  selectedFormats, downloadedSizes, jobs >>
  /\ UNCHANGED allVars

\* ---------------------------------------------------------------- Images
\* zip.file(fileName, data): an entry of that name is replaced
ZipFile(zip, fileName, data) ==
  {e \in zip : e.name # fileName} \cup {[name |-> fileName, data |-> data]}

\* a loop that adds every item
HasProcessedFile_Always(img) == TRUE

\* if (image.processedFile)
HasProcessedFile(img) == img.processedFile # NoFile

\* the for loop of handleDownloadAll, lines 15-20, from item i on
RECURSIVE ZipLoop(_, _, _)
ZipLoop(imgs, i, zip) ==
  IF i > Len(imgs) THEN zip
  ELSE IF HasProcessedFile(imgs[i])
    THEN ZipLoop(imgs, i + 1,
                 ZipFile(zip, "processed-" \o ToString(imgs[i].id) \o ".png",
                         imgs[i].processedFile))
    ELSE ZipLoop(imgs, i + 1, zip)

\* "Download All (.zip)", rendered under {images.length > 1 && ...}:
\* handleDownloadAll up to the await of zip.generateAsync
handleDownloadAll ==
  /\ Len(images) > 1
  /\ archives' = Append(archives, [ images |-> images,
                                    zip |-> ZipLoop(images, 1, {}),
                                    pc |-> "generateAsync" ])
  /\ UNCHANGED << images, zipSaves >>
  /\ UNCHANGED spotVars

\* zip.generateAsync resolves: lines 23-28
ZipGenerated(a) ==
  /\ a \in 1..Len(archives)
  /\ archives[a].pc = "generateAsync"
  /\ archives' = [archives EXCEPT ![a].pc = "done"]
  /\ zipSaves' = Append(zipSaves, [ archive |-> a, download |-> "processed-images.zip",
                                    content |-> archives[a].zip ])
  /\ UNCHANGED images
  /\ UNCHANGED spotVars

\* the upstream component attaches processedFile to item i of the collection
AttachProcessedAt(i, file) ==
  /\ i \in 1..Len(images)
  /\ images[i].processedFile = NoFile
  /\ images' = [images EXCEPT ![i].processedFile = file]
  /\ UNCHANGED << archives, zipSaves >>
  /\ UNCHANGED spotVars

\* onDelete(image.id): the upstream component removes the item
onDelete(id) ==
  /\ \E i \in 1..Len(images) : images[i].id = id /\ images[i].processedFile # NoFile
  /\ images' = SelectSeq(images, LAMBDA it : it.id # id)
  /\ UNCHANGED << archives, zipSaves >>
  /\ UNCHANGED spotVars

\* --------------------------------------------------------- specifications
ImageIds == 1..MaxId

\* the presets clicked in Spec: the original size and one fixed size
SizeChoices == {downloadSizes[1], downloadSizes[2]}

Catalog == Range(downloadSizes)

\* item collections with unique ids
Collections ==
  UNION { { s \in [1..n -> [id : ImageIds, processedFile : {NoFile} \cup Files]] :
              \A i, j \in 1..n : i # j => s[i].id # s[j].id } : n \in 0..MaxItems }

\* the Images component without items
NoCollection ==
  /\ images = << >>
  /\ archives = << >>
  /\ zipSaves = << >>

\* One ImageSpot, from its first render
Init ==
  /\ image = [id |-> MaxId, processedFile |-> NoFile]
  /\ bitmap = [u \in Urls |-> IF u = EditedURL THEN <<100, 100>> ELSE <<640, 480>>]
  /\ isEditModalOpen = FALSE
  /\ processedImageUrl = ""
  /\ showDownloadOptions = FALSE
  /\ selectedFormats = << >>
  /\ downloadedSizes = << >>
  /\ jobs = << >>
  /\ toBlobQueue = {}
  /\ saves = {}
  /\ NoCollection

\* events the browser delivers: load or error of a loading Image, a queued
\* toBlob callback
BrowserStep ==
  \/ \E j \in 1..Len(jobs), ctx \in BOOLEAN : ImgLoad(j, ctx)
  \/ \E j \in 1..Len(jobs) : ImgError(j)
  \/ \E d \in toBlobQueue, blob \in BOOLEAN : ToBlobCallback(d, blob)

\* what the user and the collaborators of the ImageSpot do, size clicks apart
MenuStep ==
  \/ AttachProcessed("pngA")
  \/ OpenEditModal
  \/ CloseEditModal
  \/ handleEditSave(EditedURL)
  \/ ToggleDownloadOptions
  \/ BackdropClick
  \/ \E format \in Formats : handleFormatSelect(format)

Next ==
  \/ MenuStep
  \/ \E size \in SizeChoices : Len(jobs) < MaxJobs /\ handleSizeSelect(size)
  \/ BrowserStep

Spec == Init /\ [][Next]_vars

\* the browser delivers every queued event
FairSpec == Spec /\ WF_vars(BrowserStep)

\* The same ImageSpot with a user who clicks sizes while exports are in flight
NextReentrant ==
  \/ MenuStep
  \/ \E size \in SizeChoices : Len(jobs) < MaxClicks /\ handleSizeSelect(size)
  \/ BrowserStep

SpecReentrant == Init /\ [][NextReentrant]_vars

\* The export pipeline over the whole catalogue: an ImageSpot with its menu
\* open and formats selected, for every item id, image url and natural size
InitExport ==
  /\ image \in [id : ImageIds, processedFile : {"pngA"}]
  /\ bitmap \in [Urls -> NaturalSizes]
  /\ isEditModalOpen = FALSE
  /\ processedImageUrl \in {"", EditedURL}
  /\ showDownloadOptions = TRUE
  /\ selectedFormats \in { <<"png">>, <<"svg">>, <<"png", "svg">>, <<"svg", "png">> }
  /\ downloadedSizes = << >>
  /\ jobs = << >>
  /\ toBlobQueue = {}
  /\ saves = {}
  /\ NoCollection

NextExport ==
  \/ \E size \in Catalog : Len(jobs) < MaxJobs /\ handleSizeSelect(size)
  \/ BrowserStep

SpecExport == InitExport /\ [][NextExport]_vars

\* The Images component over a given collection
InitAll ==
  /\ images \in Collections
  /\ archives = << >>
  /\ zipSaves = << >>
  /\ image = [id |-> MaxId, processedFile |-> NoFile]
  /\ bitmap = [u \in Urls |-> <<640, 480>>]
  /\ isEditModalOpen = FALSE
  /\ processedImageUrl = ""
  /\ showDownloadOptions = FALSE
  /\ selectedFormats = << >>
  /\ downloadedSizes = << >>
  /\ jobs = << >>
  /\ toBlobQueue = {}
  /\ saves = {}

NextAll ==
  \/ Len(archives) < MaxArchives /\ handleDownloadAll
  \/ \E a \in 1..Len(archives) : ZipGenerated(a)
  \/ \E i \in 1..Len(images), file \in Files : AttachProcessedAt(i, file)
  \/ \E id \in ImageIds : onDelete(id)

SpecAll == InitAll /\ [][NextAll]_vars

\* ------------------------------------------------------------------ claims
\* the handleDownload invocations (job, format index) that issued their save
Saved(j, k) == \E d \in saves : d.job = j /\ d.k = k

\* ... and those whose toBlob callback is still queued
Queued(j, k) == \E d \in toBlobQueue : d.job = j /\ d.k = k

\* format index k of job j has been passed by the loop of handleSizeSelect
Returned(j, k) == jobs[j].idx > k \/ (jobs[j].idx = k /\ jobs[j].done)

\* C1: within one handleSizeSelect the formats are exported in selection
\* order, and once the export of the next format has started the previous
\* format (unless it was dropped for want of a 2d context) has issued its save.
C1_SaveBeforeNextExport ==
  /\ \A d \in saves \cup toBlobQueue : d.format = jobs[d.job].formats[d.k]
  /\ \A j \in 1..Len(jobs) : \A k \in 1..Len(jobs[j].formats) :
       (jobs[j].idx > k /\ k \notin jobs[j].noctx) => Saved(j, k)

\* C2: a preset is in downloadedSizes only when every selected format of the
\* handleSizeSelect that put it there (those dropped for want of a 2d context
\* apart) has issued its save.
C2_MarkedOnlyAfterSaves ==
  \A j \in 1..Len(jobs) :
    (jobs[j].done /\ Includes(downloadedSizes, jobs[j].size.id))
      => \A k \in 1..Len(jobs[j].formats) : k \notin jobs[j].noctx => Saved(j, k)

\* C3: every archive built by handleDownloadAll holds exactly one entry
\* processed-<id>.png per item that has a processedFile, with that file as
\* its data, none for the other items, and the invocation issues exactly one
\* save, named processed-images.zip, of that archive.
C3_ArchiveExactlyProcessed ==
  \A a \in 1..Len(archives) :
    LET items    == archives[a].images
        present  == {i \in 1..Len(items) : items[i].processedFile # NoFile}
        expected == {[name |-> "processed-" \o ToString(items[i].id) \o ".png",
                      data |-> items[i].processedFile] : i \in present}
        issued   == {n \in 1..Len(zipSaves) : zipSaves[n].archive = a}
    IN  /\ archives[a].zip = expected
        /\ Cardinality(archives[a].zip) = Cardinality(present)
        /\ Cardinality(issued) = IF archives[a].pc = "done" THEN 1 ELSE 0
        /\ \A n \in issued : /\ zipSaves[n].download = "processed-images.zip"
                             /\ zipSaves[n].content = expected

\* a finished archive of a collection that mixes items with and without a
\* processedFile
C3_Witness ==
  \E a \in 1..Len(archives) :
    /\ archives[a].pc = "done"
    /\ \E i, j \in 1..Len(archives[a].images) :
         /\ archives[a].images[i].processedFile # NoFile
         /\ archives[a].images[j].processedFile = NoFile
    /\ \E n \in 1..Len(zipSaves) : zipSaves[n].archive = a /\ zipSaves[n].content # {}

\* C4: whenever the menu goes from closed to open, selectedFormats and
\* downloadedSizes are both empty.
C4_ReopenedMenuIsReset ==
  [][ (~showDownloadOptions /\ showDownloadOptions')
        => (selectedFormats' = << >> /\ downloadedSizes' = << >>) ]_vars

\* C5: every handleSizeSelect was started with at least one format selected
\* and the item's processedFile present; the menu with its size buttons is
\* shown only for an item that has its processedFile, and the buttons are
\* enabled exactly when a format is selected.
C5_ExportOnlyWhenPermitted ==
  /\ \A j \in 1..Len(jobs) : Len(jobs[j].formats) > 0 /\ ~jobs[j].processing
  /\ showDownloadOptions => image.processedFile # NoFile
  /\ showDownloadOptions => (SizeButtonEnabled <=> Len(selectedFormats) > 0)

\* an export that was started
C5_Witness ==
  /\ Len(jobs) > 0
  /\ jobs[1].idx >= 1
  /\ image.processedFile # NoFile

\* the preset without width and height
IsOriginalPreset(p) == p.width = Null /\ p.height = Null

\* C6: the file name of every save is processed-<i>-original.<f> if and only
\* if the preset is the original-size preset, and is
\* processed-<i>-<width>x<height>.<f> otherwise.
C6_FileName ==
  \A d \in saves \cup toBlobQueue :
    LET job == jobs[d.job]
        p   == job.size
        f   == job.formats[d.k]
        i   == ToString(job.id)
    IN  /\ d.format \in {"png", "svg"}
        /\ (d.download = "processed-" \o i \o "-original." \o f) <=> IsOriginalPreset(p)
        /\ ~IsOriginalPreset(p) =>
             d.download = "processed-" \o i \o "-" \o ToString(p.width) \o "x"
                            \o ToString(p.height) \o "." \o f

\* both formats of a sized preset were saved for item 2
C6_Witness ==
  /\ \E d \in saves : d.download = "processed-2-150x150.png"
  /\ \E d \in saves : d.download = "processed-2-150x150.svg"

\* C7: the canvas of every export has the preset's width and height when
\* both are set and the natural size of the loaded image for the original
\* preset; the width and height attributes of an svg are those numbers.
C7_SurfaceSize ==
  \A d \in saves \cup toBlobQueue :
    LET job      == jobs[d.job]
        p        == job.size
        natural  == bitmap[job.src]
        expected == IF IsOriginalPreset(p) THEN natural ELSE << p.width, p.height >>
    IN  /\ d.canvas = expected
        /\ d.format = "svg" => /\ d.svg.width = ToString(expected[1])
                               /\ d.svg.height = ToString(expected[2])

\* an svg of the original size of an edited image that is not square, where
\* the processed image has another size
C7_Witness ==
  \E d \in saves : /\ d.format = "svg"
                     /\ jobs[d.job].size.id = "original"
                     /\ jobs[d.job].src = EditedURL
                     /\ d.canvas = <<640, 480>>
                     /\ bitmap["blob:processed"] = <<100, 100>>

\* C8: every handleSizeSelect that was started eventually finishes its loop
\* and marks its preset.
C8_ExportCompletes ==
  \A j \in 1..MaxJobs :
    (Len(jobs) >= j) ~> (Len(jobs) >= j /\ jobs[j].done)

\* C9: a handleDownload that got no 2d context issues no save and queues no
\* callback, and handleSizeSelect has gone on to the next format or, after
\* the last one, has finished.
C9_NoContextSilentAbort ==
  \A j \in 1..Len(jobs) : \A k \in jobs[j].noctx :
    /\ ~Saved(j, k)
    /\ ~Queued(j, k)
    /\ Returned(j, k)
    /\ jobs[j].img # "error" \/ jobs[j].idx > k

\* the first format was dropped for want of a context and the second was saved
C9_Witness ==
  \E j \in 1..Len(jobs) :
    /\ Len(jobs[j].formats) = 2
    /\ 1 \in jobs[j].noctx
    /\ Saved(j, 2)
    /\ jobs[j].done

\* the handleDownload invocations between their start and their save
InProgress ==
  {<<j, k>> \in (1..Len(jobs)) \X (1..Cardinality(Formats)) :
     \/ jobs[j].idx = k /\ jobs[j].img = "loading"
     \/ Queued(j, k)}

\* C10: at most one handleDownload invocation is in progress at any time.
C10_NoOverlap == Cardinality(InProgress) <= 1

====
